---- MODULE Spec2Model ----
(***************************************************************************)
(* A model of the three batch notebooks of seismiqb:                       *)
(*   datasets/02_Cube_demo.ipynb          (slice exporter)                 *)
(*   the "Metrics for cubes" notebook     (metric reporter)                *)
(*   models/Carcass_interpolation/02_Iterative_results.ipynb (summarizer)  *)
(* Python strings are sequences of one-character strings, so that          *)
(* formatting, joining, splitting and prefix tests are computed.           *)
(***************************************************************************)
EXTENDS Integers, Sequences, FiniteSets, TLC

VARIABLES
    pc,                \* position of the running notebook
    err,               \* the exception that ended the run ("none" while running)
    dirs,              \* the directories of the filesystem (paths)
    files,             \* the files of the filesystem (paths)
    paths,             \* the cubes to evaluate: what opening each path yields
    path_cube,         \* index of the cube the outer loop is at
    geometry,          \* the geometry handle of the current cube
    cube_dir,          \* output directory of the current cube
    save_path,         \* last save path built
    N,                 \* slice exporter: number of slides along each axis
    i,                 \* slice exporter: 1-based index of the current axis
    locs,              \* slice exporter: slide locations of the current axis
    loc,               \* slice exporter: number of locations of locs already shown
    bound,             \* metric reporter: names bound in the kernel besides the imports
    metrics,           \* metric reporter: names of the metrics to compute
    metric_name,       \* metric reporter: 1-based index in metrics of the inner loop
    local_kwargs,      \* metric reporter: preset of the `local` metrics
    support_kwargs,    \* metric reporter: preset of the `support` metrics
    ADD_PREFIX,        \* metric reporter: file names carry the parameters
    SAVE_POINT_CLOUDS, \* metric reporter: save point clouds next to the images
    kwargs,            \* metric reporter: parameters of the last metric
    computed_metrics,  \* metric reporter: results collected for the current cube
    evals,             \* metric reporter: the calls of gm.evaluate so far, in order
    run,               \* metric reporter: 1 in the first run of the notebook, 2 in the rerun
    results_df,        \* summarizer: results.df, the loaded table (a sequence of rows)
    df,                \* summarizer: the projected table with its added columns
    dff,               \* summarizer: the table indexed by (cube_name, horizon_name)
    wr,                \* summarizer: the window_rates column, one column per iteration
    cov,               \* summarizer: the coverages column, one column per iteration
    corrs,             \* summarizer: the corrs column, one column per iteration
    out                \* summarizer: the table the last cell displays

demo_vars == <<N, i, locs, loc>>

metrics_vars == <<bound, metrics, metric_name, local_kwargs, support_kwargs, ADD_PREFIX,
                  SAVE_POINT_CLOUDS, kwargs, computed_metrics, evals, run>>

summ_vars == <<results_df, df, dff, wr, cov, corrs, out>>

vars == <<pc, err, dirs, files, paths, path_cube, geometry, cube_dir, save_path,
          demo_vars, metrics_vars, summ_vars>>

-----------------------------------------------------------------------------
(* Bounds of the model *)

MaxPaths == 2

MaxN == 2

MaxExtent == 3

MaxMetrics == 2

MaxNameLen == 6

MaxKeyLen == 4

MaxRows == 2

MaxRepetition == 1

-----------------------------------------------------------------------------
(* Python strings *)

\* sep.join(parts)
RECURSIVE join(_, _)
join(sep, parts) ==
    IF Len(parts) = 0 THEN <<>>
    ELSE IF Len(parts) = 1 THEN parts[1]
    ELSE parts[1] \o sep \o join(sep, Tail(parts))

Digit(d) == <<"0", "1", "2", "3", "4", "5", "6", "7", "8", "9">>[d + 1]

\* str(n) and f'{n}' of a non-negative int
RECURSIVE StrInt(_)
StrInt(n) == IF n < 10 THEN <<Digit(n)>> ELSE StrInt(n \div 10) \o <<Digit(n % 10)>>

\* s.startswith(prefix)
startswith(s, prefix) ==
    /\ Len(prefix) <= Len(s)
    /\ SubSeq(s, 1, Len(prefix)) = prefix

\* positions of character c in s
Positions(s, c) == {p \in 1..Len(s) : s[p] = c}

\* os.path.dirname of a '/'-separated path ('' when there is no '/')
Dirname(p) ==
    LET sl == Positions(p, "/")
    IN  IF sl = {} THEN <<>>
        ELSE SubSeq(p, 1, (CHOOSE q \in sl : \A r \in sl : r <= q) - 1)

-----------------------------------------------------------------------------
(* Filesystem: os.mkdir and the notebooks' try/except around it *)

NoExc == "none"

\* os.mkdir(path): the directories afterwards and the exception raised
mkdir(d, f, path) ==
    IF path \in d \cup f
    THEN [dirs |-> d, exc |-> "FileExistsError"]
    ELSE IF Dirname(path) # <<>> /\ Dirname(path) \notin d
    THEN [dirs |-> d, exc |-> "FileNotFoundError"]
    ELSE [dirs |-> d \cup {path}, exc |-> NoExc]

\* try: os.mkdir(path) with no except clause
TryMkdirUncaught(d, f, path) == mkdir(d, f, path)

\* try: os.mkdir(path)
\* except FileExistsError: pass
TryMkdir(d, f, path) ==
    LET r == mkdir(d, f, path)
    IN  IF r.exc = "FileExistsError" THEN [dirs |-> r.dirs, exc |-> NoExc] ELSE r

-----------------------------------------------------------------------------
(* Inputs: what the geometry provider yields for a path *)

ShortNames == { <<"a", "m", "p", "_", "A">>, <<"a", "m", "p", "_", "B">> }

index_headers == << <<"I", "N", "L", "I", "N", "E", "_", "3", "D">>,
                    <<"C", "R", "O", "S", "S", "L", "I", "N", "E", "_", "3", "D">> >>

\* extents of a full-size axis
TypicalExtents == {100}

Extents == (1..MaxExtent) \cup TypicalExtents

\* geometries of the slice exporter: the inline axis varies, the crossline axis is full-size
DemoGeometries ==
    [short_name : ShortNames, lens : {<<e, f>> : e \in Extents, f \in TypicalExtents}]

SeqsUpTo(S, n) == UNION {[1..k -> S] : k \in 0..n}

\* directories a previous run of a notebook may have left behind
LeftOver(script) ==
    {{}} \cup {{script} \cup {join(<<"/">>, <<script, s>>) : s \in sn} : sn \in SUBSET ShortNames}

-----------------------------------------------------------------------------
(* Slice exporter: datasets/02_Cube_demo.ipynb *)

demo_script_dir == <<"c", "u", "b", "e", "_", "d", "e", "m", "o">>

\* N = 5, the notebook's number of slides
DemoN == 5

\* list(range(start, stop, stp)) for stp > 0
RangeLen(start, stop, stp) ==
    IF start >= stop THEN 0 ELSE (stop - start + stp - 1) \div stp

range(start, stop, stp) ==
    [k \in 1..RangeLen(start, stop, stp) |-> start + (k - 1) * stp]

\* step // 3, the first slide location
FirstLocHalf(stp) == stp \div 2

FirstLoc(stp) == stp \div 3

\* f'{idx}-{loc}.png' joined to cube_dir
SlidePath(cdir, idx, l) ==
    join(<<"/">>, <<cdir, idx \o <<"-">> \o StrInt(l) \o <<".", "p", "n", "g">> >>)

\* the metric reporter is not running
MetricsIdle ==
    /\ bound = {}
    /\ metrics = <<>>
    /\ metric_name = 0
    /\ local_kwargs = <<>>
    /\ support_kwargs = <<>>
    /\ ADD_PREFIX = FALSE
    /\ SAVE_POINT_CLOUDS = FALSE
    /\ kwargs = <<>>
    /\ computed_metrics = <<>>
    /\ evals = <<>>
    /\ run = 0

\* a data frame with no columns and no rows
NoFrame == [columns |-> <<>>, rows |-> <<>>]

\* the summarizer is not running
SummIdle ==
    /\ results_df = <<>>
    /\ df = <<>>
    /\ dff = <<>>
    /\ wr = NoFrame /\ cov = NoFrame /\ corrs = NoFrame /\ out = NoFrame

DemoInit ==
    /\ pc = "demo_script_dir"
    /\ err = NoExc
    /\ dirs \in LeftOver(demo_script_dir)
    /\ files = {}
    /\ paths \in SeqsUpTo(DemoGeometries, MaxPaths)
    /\ path_cube = 0
    /\ geometry = [short_name |-> <<>>, lens |-> <<>>]
    /\ cube_dir = <<>>
    /\ save_path = <<>>
    /\ N \in (1..MaxN) \cup {DemoN}
    /\ i = 0
    /\ locs = <<>>
    /\ loc = 0
    /\ MetricsIdle
    /\ SummIdle

\* the exception is recorded and the loop goes on with its next item
RaiseAndContinue(e) == pc' = pc /\ err' = e

\* an exception nothing catches: the cell is aborted
Raise(e) == pc' = "error" /\ err' = e

\* script_dir = 'cube_demo'; try: os.mkdir(script_dir) except FileExistsError: pass
DemoMkScriptDir ==
    /\ pc = "demo_script_dir"
    /\ LET r == TryMkdir(dirs, files, demo_script_dir)
       IN  /\ dirs' = r.dirs
           /\ IF r.exc # NoExc THEN Raise(r.exc)
              ELSE pc' = "demo_for_cube" /\ err' = err
    /\ UNCHANGED <<metrics_vars, summ_vars>>
    /\ UNCHANGED <<files, paths, path_cube, geometry, cube_dir, save_path, N, i, locs, loc>>

\* for path_cube in paths: geometry = SeismicGeometry(path_cube)
DemoOpenCube ==
    /\ pc = "demo_for_cube"
    /\ path_cube < Len(paths)
    /\ path_cube' = path_cube + 1
    /\ geometry' = paths[path_cube + 1]
    /\ pc' = "demo_cube_dir"
    /\ UNCHANGED <<metrics_vars, summ_vars>>
    /\ UNCHANGED <<err, dirs, files, paths, cube_dir, save_path, N, i, locs, loc>>

\* SeismicGeometry(path_cube) raises
DemoOpenCubeFails ==
    /\ pc = "demo_for_cube"
    /\ path_cube < Len(paths)
    /\ path_cube' = path_cube + 1
    /\ Raise("SeismicGeometry")
    /\ UNCHANGED <<metrics_vars, summ_vars>>
    /\ UNCHANGED <<dirs, files, paths, geometry, cube_dir, save_path, N, i, locs, loc>>

\* the loop over paths is exhausted
DemoFinish ==
    /\ pc = "demo_for_cube"
    /\ path_cube = Len(paths)
    /\ pc' = "done"
    /\ UNCHANGED <<metrics_vars, summ_vars>>
    /\ UNCHANGED <<err, dirs, files, paths, path_cube, geometry, cube_dir, save_path,
                   N, i, locs, loc>>

\* cube_dir = '/'.join((script_dir, geometry.short_name)); try: os.mkdir(cube_dir) ...
DemoMkCubeDir ==
    /\ pc = "demo_cube_dir"
    /\ LET cdir == join(<<"/">>, <<demo_script_dir, geometry.short_name>>)
           r == TryMkdir(dirs, files, cdir)
       IN  /\ cube_dir' = cdir
           /\ dirs' = r.dirs
           /\ IF r.exc # NoExc THEN Raise(r.exc)
              ELSE pc' = "demo_for_axis" /\ err' = err
    /\ i' = 0
    /\ UNCHANGED <<metrics_vars, summ_vars>>
    /\ UNCHANGED <<files, paths, path_cube, geometry, save_path, N, locs, loc>>

\* for i, idx in enumerate(geometry.index_headers):
\*     length = geometry.lens[i]; step = length // N
\*     locs = list(range(step // 3, length, step))
DemoAxis ==
    /\ pc = "demo_for_axis"
    /\ i < Len(index_headers)
    /\ i' = i + 1
    /\ loc' = 0
    /\ LET length == geometry.lens[i + 1]
           step == length \div N
       IN  IF step = 0
           THEN Raise("ValueError") /\ locs' = locs
           ELSE /\ locs' = range(FirstLoc(step), length, step)
                /\ pc' = "demo_for_loc"
                /\ err' = err
    /\ UNCHANGED <<metrics_vars, summ_vars>>
    /\ UNCHANGED <<dirs, files, paths, path_cube, geometry, cube_dir, save_path, N>>

\* the loop over the axes is exhausted
DemoAxesDone ==
    /\ pc = "demo_for_axis"
    /\ i = Len(index_headers)
    /\ pc' = "demo_for_cube"
    /\ UNCHANGED <<metrics_vars, summ_vars>>
    /\ UNCHANGED <<err, dirs, files, paths, path_cube, geometry, cube_dir, save_path,
                   N, i, locs, loc>>

\* for loc in locs: save_path = ...; geometry.show_slide(loc, axis=i, show=SHOW, savepath=save_path)
DemoShowSlide ==
    /\ pc = "demo_for_loc"
    /\ loc < Len(locs)
    /\ loc' = loc + 1
    /\ save_path' = SlidePath(cube_dir, index_headers[i], locs[loc + 1])
    /\ files' = files \cup {save_path'}
    /\ UNCHANGED <<metrics_vars, summ_vars>>
    /\ UNCHANGED <<pc, err, dirs, paths, path_cube, geometry, cube_dir, N, i, locs>>

\* geometry.show_slide raises
DemoShowSlideFails ==
    /\ pc = "demo_for_loc"
    /\ loc < Len(locs)
    /\ loc' = loc + 1
    /\ save_path' = SlidePath(cube_dir, index_headers[i], locs[loc + 1])
    /\ Raise("show_slide")
    /\ UNCHANGED <<metrics_vars, summ_vars>>
    /\ UNCHANGED <<dirs, files, paths, path_cube, geometry, cube_dir, N, i, locs>>

\* the loop over locs is exhausted
DemoLocsDone ==
    /\ pc = "demo_for_loc"
    /\ loc = Len(locs)
    /\ pc' = "demo_for_axis"
    /\ UNCHANGED <<metrics_vars, summ_vars>>
    /\ UNCHANGED <<err, dirs, files, paths, path_cube, geometry, cube_dir, save_path,
                   N, i, locs, loc>>

DemoNext ==
    \/ DemoMkScriptDir
    \/ DemoOpenCube
    \/ DemoOpenCubeFails
    \/ DemoFinish
    \/ DemoMkCubeDir
    \/ DemoAxis
    \/ DemoAxesDone
    \/ DemoShowSlide
    \/ DemoShowSlideFails
    \/ DemoLocsDone

DemoSpec == DemoInit /\ [][DemoNext]_vars

-----------------------------------------------------------------------------
(* Metric reporter: the "Metrics for cubes" notebook *)

metrics_script_dir == <<"c", "u", "b", "e", "_", "m", "e", "t", "r", "i", "c", "s">>

png == <<".", "p", "n", "g">>

\* Python values held by the parameter dictionaries
PyNone == [t |-> "None", n |-> 0, s |-> <<>>]

PyInt(v) == [t |-> "int", n |-> v, s |-> <<>>]

PyStr(v) == [t |-> "str", n |-> 0, s |-> v]

\* a list, kept as its repr
PyList(v) == [t |-> "list", n |-> 0, s |-> v]

\* str(value)
str(v) ==
    CASE v.t = "None" -> <<"N", "o", "n", "e">>
      [] v.t = "int" -> StrInt(v.n)
      [] OTHER -> v.s

\* a dict is the sequence of its items, in iteration (insertion) order
Item(k, v) == [key |-> k, value |-> v]

\* local_kwargs = {'agg': None, 'kernel_size': 3, 'reduce_func': 'mean'}
SourceLocalKwargs ==
    << Item(<<"a", "g", "g">>, PyNone),
       Item(<<"k", "e", "r", "n", "e", "l", "_", "s", "i", "z", "e">>, PyInt(3)),
       Item(<<"r", "e", "d", "u", "c", "e", "_", "f", "u", "n", "c">>, PyStr(<<"m", "e", "a", "n">>)) >>

\* support_kwargs = {'agg': 'mean', 'supports': 20}
SourceSupportKwargs ==
    << Item(<<"a", "g", "g">>, PyStr(<<"m", "e", "a", "n">>)),
       Item(<<"s", "u", "p", "p", "o", "r", "t", "s">>, PyInt(20)) >>

\* presets a user may set before running the notebook again
LocalPresets ==
    { SourceLocalKwargs,
      << Item(<<"a", "g", "g">>, PyStr(<<"N", "o", "n", "e">>)),
         Item(<<"k", "e", "r", "n", "e", "l", "_", "s", "i", "z", "e">>, PyInt(3)),
         Item(<<"r", "e", "d", "u", "c", "e", "_", "f", "u", "n", "c">>, PyStr(<<"m", "e", "a", "n">>)) >> }

SupportPresets ==
    { SourceSupportKwargs,
      << Item(<<"s", "u", "p", "p", "o", "r", "t", "s">>, PyInt(20)),
         Item(<<"a", "g", "g">>, PyStr(<<"m", "e", "a", "n">>)) >> }

quality_map == <<"q", "u", "a", "l", "i", "t", "y", "_", "m", "a", "p">>

MetricNames == { <<"s", "u", "p", "p", "o", "r", "t", "_", "h", "e", "l", "l", "i", "n", "g", "e", "r">>, <<"l", "o", "c", "a", "l", "_", "c", "o", "r", "r">> }

MetricsGeometries ==
    [short_name : ShortNames, lens : {<<e, e>> : e \in TypicalExtents}]

\* copy(d): a new dict with the same items in the same order
copy(d) == d

\* sub in s
contains(s, sub) ==
    \E p \in 0..(Len(s) - Len(sub)) : SubSeq(s, p + 1, p + Len(sub)) = sub

\* copy(local_kwargs) if 'local' in metric_name else copy(support_kwargs)
SelectKwargsContains(name, lk, sk) ==
    IF contains(name, <<"l", "o", "c", "a", "l">>) THEN copy(lk) ELSE copy(sk)

\* copy(local_kwargs) if metric_name.startswith('local') else copy(support_kwargs)
SelectKwargs(name, lk, sk) ==
    IF startswith(name, <<"l", "o", "c", "a", "l">>) THEN copy(lk) ELSE copy(sk)

\* [':'.join([key, str(value)]) for key, value in kwargs.items()]
ItemStrings(kw) ==
    [k \in 1..Len(kw) |-> join(<<":">>, <<kw[k].key, str(kw[k].value)>>)]

Reverse(s) == [k \in 1..Len(s) |-> s[Len(s) + 1 - k]]

\* the items joined last to first
SuffixReversed(kw) == join(<<"|">>, Reverse(ItemStrings(kw)))

\* '|'.join([':'.join([key, str(value)]) for key, value in kwargs.items()])
Suffix(kw) == join(<<"|">>, ItemStrings(kw))

\* the save path built on script_dir, the parent of cube_dir
SavePathInScriptDir(cdir, name, kw, add_prefix) ==
    LET base == join(<<"/">>, <<Dirname(cdir), name>>)
    IN  IF add_prefix THEN base \o <<"@">> \o Suffix(kw) ELSE base

\* save_path = '/'.join((cube_dir, name)); if ADD_PREFIX: save_path += '@' + suffix
SavePath(cdir, name, kw, add_prefix) ==
    LET base == join(<<"/">>, <<cdir, name>>)
    IN  IF add_prefix THEN base \o <<"@">> \o Suffix(kw) ELSE base

\* computed_metrics carried over instead of reset
KeepComputedMetrics(cm) == cm

\* computed_metrics = []
NewComputedMetrics(cm) == <<>>

\* quantiles=[0.1], agg=None
QualityMapParams == << Item(<<"q", "u", "a", "n", "t", "i", "l", "e", "s">>, PyList(<<"[", "0", ".", "1", "]">>)), Item(<<"a", "g", "g">>, PyNone) >>

\* the file name of the quality map encoding the parameters of its own call
SuffixSourceParams(left_over) == QualityMapParams

\* kwargs.items() after the loop over metrics: kwargs is what the last pass left in it
SuffixSource(left_over) == left_over

\* one call of gm.evaluate; its result is identified by its position in evals
Call(name, params, cm, aggregate, savepath) ==
    [run |-> run, cube |-> path_cube, name |-> name, params |-> params,
     computed_metrics |-> cm, aggregate |-> aggregate, savepath |-> savepath]

MetricsInit ==
    /\ pc = "metrics_script_dir"
    /\ err = NoExc
    /\ dirs = {}
    /\ files = {}
    /\ paths \in SeqsUpTo(MetricsGeometries, MaxPaths)
    /\ path_cube = 0
    /\ geometry = [short_name |-> <<>>, lens |-> <<>>]
    /\ cube_dir = <<>>
    /\ save_path = <<>>
    /\ N = 0 /\ i = 0 /\ locs = <<>> /\ loc = 0
    /\ bound \in {{}, {"plt"}}
    /\ metrics \in SeqsUpTo(MetricNames, MaxMetrics)
    /\ metric_name = 0
    /\ local_kwargs = SourceLocalKwargs
    /\ support_kwargs = SourceSupportKwargs
    /\ ADD_PREFIX \in BOOLEAN
    /\ SAVE_POINT_CLOUDS \in BOOLEAN
    /\ kwargs = <<>>
    /\ computed_metrics = <<>>
    /\ evals = <<>>
    /\ run = 1
    /\ SummIdle

\* script_dir = 'cube_metrics'; try: os.mkdir(script_dir) except FileExistsError: pass
MetricsMkScriptDir ==
    /\ pc = "metrics_script_dir"
    /\ LET r == TryMkdir(dirs, files, metrics_script_dir)
       IN  /\ dirs' = r.dirs
           /\ IF r.exc # NoExc THEN Raise(r.exc)
              ELSE pc' = "metrics_for_cube" /\ err' = err
    /\ UNCHANGED <<files, paths, path_cube, geometry, cube_dir, save_path>>
    /\ UNCHANGED <<demo_vars, metrics_vars, summ_vars>>

\* for path_cube in paths: geometry = SeismicGeometry(path_cube); gm = GeometryMetrics(geometry)
MetricsOpenCube ==
    /\ pc = "metrics_for_cube"
    /\ path_cube < Len(paths)
    /\ path_cube' = path_cube + 1
    /\ geometry' = paths[path_cube + 1]
    /\ pc' = "metrics_cube_dir"
    /\ UNCHANGED <<err, dirs, files, paths, cube_dir, save_path>>
    /\ UNCHANGED <<demo_vars, metrics_vars, summ_vars>>

\* SeismicGeometry(path_cube) or GeometryMetrics(geometry) raises
MetricsOpenCubeFails ==
    /\ pc = "metrics_for_cube"
    /\ path_cube < Len(paths)
    /\ path_cube' = path_cube + 1
    /\ Raise("SeismicGeometry")
    /\ UNCHANGED <<dirs, files, paths, geometry, cube_dir, save_path>>
    /\ UNCHANGED <<demo_vars, metrics_vars, summ_vars>>

\* the loop over paths is exhausted
MetricsFinish ==
    /\ pc = "metrics_for_cube"
    /\ path_cube = Len(paths)
    /\ pc' = "done"
    /\ UNCHANGED <<err, dirs, files, paths, path_cube, geometry, cube_dir, save_path>>
    /\ UNCHANGED <<demo_vars, metrics_vars, summ_vars>>

\* cube_dir = '/'.join((script_dir, geometry.short_name)); try: os.mkdir(cube_dir) ...
\* computed_metrics = []
MetricsMkCubeDir ==
    /\ pc = "metrics_cube_dir"
    /\ LET cdir == join(<<"/">>, <<metrics_script_dir, geometry.short_name>>)
           r == TryMkdir(dirs, files, cdir)
       IN  /\ cube_dir' = cdir
           /\ dirs' = r.dirs
           /\ IF r.exc # NoExc
              THEN Raise(r.exc) /\ UNCHANGED <<computed_metrics, metric_name>>
              ELSE /\ pc' = "metrics_for_metric"
                   /\ err' = err
                   /\ computed_metrics' = NewComputedMetrics(computed_metrics)
                   /\ metric_name' = 0
    /\ UNCHANGED <<files, paths, path_cube, geometry, save_path, demo_vars, summ_vars>>
    /\ UNCHANGED <<bound, metrics, local_kwargs, support_kwargs, ADD_PREFIX,
                   SAVE_POINT_CLOUDS, kwargs, evals, run>>

\* one pass of `for metric_name in metrics`: save_path, kwargs, gm.evaluate,
\* computed_metrics.append(metric), save_point_cloud
MetricsEvaluate ==
    /\ pc = "metrics_for_metric"
    /\ metric_name < Len(metrics)
    /\ metric_name' = metric_name + 1
    /\ LET name == metrics[metric_name + 1]
           kw == SelectKwargs(name, local_kwargs, support_kwargs)
           sp == SavePath(cube_dir, name, kw, ADD_PREFIX)
       IN  /\ kwargs' = kw
           /\ bound' = bound \cup {"kwargs"}
           /\ save_path' = sp
           /\ evals' = Append(evals, Call(name, kw, <<>>, FALSE, sp \o png))
           /\ computed_metrics' = Append(computed_metrics, Len(evals) + 1)
           /\ files' = files \cup {sp \o png} \cup (IF SAVE_POINT_CLOUDS THEN {sp} ELSE {})
    /\ UNCHANGED <<pc, err, dirs, paths, path_cube, geometry, cube_dir, demo_vars, summ_vars>>
    /\ UNCHANGED <<metrics, local_kwargs, support_kwargs, ADD_PREFIX, SAVE_POINT_CLOUDS, run>>

\* gm.evaluate(metric_name, ...) raises
MetricsEvaluateFails ==
    /\ pc = "metrics_for_metric"
    /\ metric_name < Len(metrics)
    /\ metric_name' = metric_name + 1
    /\ LET name == metrics[metric_name + 1]
           kw == SelectKwargs(name, local_kwargs, support_kwargs)
       IN  /\ kwargs' = kw
           /\ bound' = bound \cup {"kwargs"}
           /\ save_path' = SavePath(cube_dir, name, kw, ADD_PREFIX)
    /\ Raise("evaluate")
    /\ UNCHANGED <<dirs, files, paths, path_cube, geometry, cube_dir, demo_vars, summ_vars>>
    /\ UNCHANGED <<metrics, local_kwargs, support_kwargs, ADD_PREFIX, SAVE_POINT_CLOUDS,
                   computed_metrics, evals, run>>

\* after the loop over metrics: save_path of the quality map, gm.evaluate('quality_map',
\* quantiles=[0.1], agg=None, computed_metrics=computed_metrics, ...), plt.show()
MetricsQualityMap ==
    /\ pc = "metrics_for_metric"
    /\ metric_name = Len(metrics)
    /\ IF ADD_PREFIX /\ "kwargs" \notin bound
       THEN /\ Raise("NameError")
            /\ save_path' = join(<<"/">>, <<cube_dir, quality_map>>) \o <<"@">>
            /\ UNCHANGED <<files, evals>>
       ELSE LET sp == SavePath(cube_dir, quality_map, SuffixSource(kwargs), ADD_PREFIX)
            IN  /\ save_path' = sp
                /\ evals' = Append(evals, Call(quality_map, QualityMapParams,
                                               computed_metrics, TRUE, sp \o png))
                /\ files' = files \cup {sp \o png}
                /\ IF "plt" \in bound
                   THEN pc' = "metrics_for_cube" /\ err' = err
                   ELSE Raise("NameError")
    /\ UNCHANGED <<dirs, paths, path_cube, geometry, cube_dir, demo_vars, summ_vars>>
    /\ UNCHANGED <<bound, metrics, metric_name, local_kwargs, support_kwargs, ADD_PREFIX,
                   SAVE_POINT_CLOUDS, kwargs, computed_metrics, run>>

\* gm.evaluate('quality_map', ...) raises
MetricsQualityMapFails ==
    /\ pc = "metrics_for_metric"
    /\ metric_name = Len(metrics)
    /\ ~(ADD_PREFIX /\ "kwargs" \notin bound)
    /\ save_path' = SavePath(cube_dir, quality_map, SuffixSource(kwargs), ADD_PREFIX)
    /\ Raise("evaluate")
    /\ UNCHANGED <<dirs, files, paths, path_cube, geometry, cube_dir, demo_vars, summ_vars>>
    /\ UNCHANGED metrics_vars

\* the user sets other presets and runs the notebook again in the same kernel
MetricsRerun ==
    /\ pc = "done"
    /\ run = 1
    /\ SummIdle
    /\ run' = 2
    /\ pc' = "metrics_script_dir"
    /\ path_cube' = 0
    /\ local_kwargs' \in LocalPresets
    /\ support_kwargs' \in SupportPresets
    /\ UNCHANGED <<err, dirs, files, paths, geometry, cube_dir, save_path, demo_vars, summ_vars>>
    /\ UNCHANGED <<bound, metrics, metric_name, ADD_PREFIX, SAVE_POINT_CLOUDS, kwargs,
                   computed_metrics, evals>>

MetricsNext ==
    \/ MetricsMkScriptDir
    \/ MetricsOpenCube
    \/ MetricsOpenCubeFails
    \/ MetricsFinish
    \/ MetricsMkCubeDir
    \/ MetricsEvaluate
    \/ MetricsEvaluateFails
    \/ MetricsQualityMap
    \/ MetricsQualityMapFails
    \/ MetricsRerun

MetricsSpec == MetricsInit /\ [][MetricsNext]_vars

\* metric names over a small alphabet, and the two names of the examples
NameAlphabet == {"l", "o", "c", "a"}

NameUniverse == SeqsUpTo(NameAlphabet, MaxNameLen)

\* the metric reporter on one cube, for every metric name
NamesInit ==
    /\ pc = "metrics_script_dir"
    /\ err = NoExc
    /\ dirs = {}
    /\ files = {}
    /\ paths \in SeqsUpTo(MetricsGeometries, 1)
    /\ path_cube = 0
    /\ geometry = [short_name |-> <<>>, lens |-> <<>>]
    /\ cube_dir = <<>>
    /\ save_path = <<>>
    /\ N = 0 /\ i = 0 /\ locs = <<>> /\ loc = 0
    /\ bound = {"plt"}
    /\ metrics \in {<<n>> : n \in NameUniverse} \cup {<< <<"s", "u", "p", "p", "o", "r", "t", "_", "h", "e", "l", "l", "i", "n", "g", "e", "r">>, <<"l", "o", "c", "a", "l", "_", "c", "o", "r", "r">> >>}
    /\ metric_name = 0
    /\ local_kwargs = SourceLocalKwargs
    /\ support_kwargs = SourceSupportKwargs
    /\ ADD_PREFIX = TRUE
    /\ SAVE_POINT_CLOUDS = FALSE
    /\ kwargs = <<>>
    /\ computed_metrics = <<>>
    /\ evals = <<>>
    /\ run = 1
    /\ SummIdle

NamesNext ==
    \/ MetricsMkScriptDir
    \/ MetricsOpenCube
    \/ MetricsOpenCubeFails
    \/ MetricsFinish
    \/ MetricsMkCubeDir
    \/ MetricsEvaluate
    \/ MetricsEvaluateFails
    \/ MetricsQualityMap
    \/ MetricsQualityMapFails

NamesSpec == NamesInit /\ [][NamesNext]_vars

\* the two batch loops: a run of the slice exporter or a run of the metric reporter
BatchInit == DemoInit \/ MetricsInit

BatchNext == DemoNext \/ MetricsNext

BatchSpec == BatchInit /\ [][BatchNext]_vars

-----------------------------------------------------------------------------
(* Iterative-results summarizer: models/Carcass_interpolation/02_Iterative_results.ipynb *)

\* s.split(c) for a one-character separator c
RECURSIVE split(_, _)
split(s, c) ==
    IF Positions(s, c) = {} THEN <<s>>
    ELSE LET p == CHOOSE q \in Positions(s, c) : \A r \in Positions(s, c) : q <= r
         IN  <<SubSeq(s, 1, p - 1)>> \o split(SubSeq(s, p + 1, Len(s)), c)

\* s.split(c) without the empty substrings
splitNonEmpty(s, c) == SelectSeq(split(s, c), LAMBDA x : x # <<>>)

\* a split of the key that leaves out the empty substrings
SplitKeyNonEmpty(item) == splitNonEmpty(item, "+")

\* item.split('+')
SplitKey(item) == split(item, "+")

\* columns = ['coverages', 'window_rates', 'corrs', 'local_corrs']
columns == <<"coverages", "window_rates", "corrs", "local_corrs">>

Range(s) == {s[k] : k \in 1..Len(s)}

\* table[cols]: the rows restricted to the columns cols
Project(table, cols) ==
    [r \in 1..Len(table) |-> [c \in Range(cols) |-> table[r][c]]]

\* table[name] = table[source].apply(f): fails when f fails on some row
CanApply(table, part) ==
    \A r \in 1..Len(table) : Len(SplitKey(table[r]["cube_and_horizon"])) >= part

ApplySplit(table, name, part) ==
    [r \in 1..Len(table) |->
        table[r] @@ (name :> SplitKey(table[r]["cube_and_horizon"])[part])]

\* one row per distinct (cube_name, horizon_name): the first of each pair
set_index_first(table) ==
    LET keep == SelectSeq([r \in 1..Len(table) |-> r],
                          LAMBDA r : \A q \in 1..(r - 1) :
                              <<table[q]["cube_name"], table[q]["horizon_name"]>> #
                              <<table[r]["cube_name"], table[r]["horizon_name"]>>)
    IN  [k \in 1..Len(keep) |->
            [index |-> <<table[keep[k]]["cube_name"], table[keep[k]]["horizon_name"]>>,
             row |-> table[keep[k]]]]

\* reset_index().set_index(['cube_name', 'horizon_name']): every row, in order,
\* under the index built from its two columns
set_index(table) ==
    [r \in 1..Len(table) |->
        [index |-> <<table[r]["cube_name"], table[r]["horizon_name"]>>, row |-> table[r]]]

\* the value pandas puts where a row has no entry
NaN == "NaN"

Max(S) == CHOOSE x \in S : \A y \in S : y <= x

\* table[col].apply(pd.Series) of a non-empty table: the lists of column col
\* spread over columns labelled with the ints 0, 1, ..., short lists padded
apply_Series(table, col) ==
    LET width == Max({Len(table[r].row[col]) : r \in 1..Len(table)})
    IN  [columns |-> [k \in 1..width |-> PyInt(k - 1)],
         rows |-> [r \in 1..Len(table) |->
                     [index |-> table[r].index,
                      cells |-> [k \in 1..width |->
                                   IF k <= Len(table[r].row[col])
                                   THEN table[r].row[col][k] ELSE NaN]]]]

\* {i : f'{prefix}_{i}' for i in range(n)}
RenameMap(prefix, n) ==
    [k \in 1..n |-> Item(PyInt(k - 1), PyStr(prefix \o <<"_">> \o StrInt(k - 1)))]

\* frame.rename(mapping, axis=1): a label that is a key of mapping is replaced
\* by its value, any other label is kept
rename(frame, mapping) ==
    LET hits(label) == {j \in 1..Len(mapping) : mapping[j].key = label}
    IN  [frame EXCEPT !.columns =
            [k \in 1..Len(frame.columns) |->
                IF hits(frame.columns[k]) = {} THEN frame.columns[k]
                ELSE mapping[CHOOSE j \in hits(frame.columns[k]) : TRUE].value]]

\* pd.concat(frames, axis=1) of frames over the same index: the columns side by side
RECURSIVE concat(_)
concat(frames) ==
    IF Len(frames) = 1 THEN frames[1]
    ELSE LET rest == concat(Tail(frames))
         IN  [columns |-> frames[1].columns \o rest.columns,
              rows |-> [r \in 1..Len(frames[1].rows) |->
                          [index |-> frames[1].rows[r].index,
                           cells |-> frames[1].rows[r].cells \o rest.rows[r].cells]]]

\* ord(c) of the characters of the composite keys
ord(c) ==
    CASE c = "+" -> 43
      [] c = "K" -> 75
      [] c = "M" -> 77
      [] c = "a" -> 97
      [] c = "b" -> 98
      [] c = "t" -> 116

\* a < b for Python strings
RECURSIVE StrLess(_, _)
StrLess(a, b) ==
    IF Len(b) = 0 THEN FALSE
    ELSE IF Len(a) = 0 THEN TRUE
    ELSE IF a[1] = b[1] THEN StrLess(Tail(a), Tail(b))
    ELSE ord(a[1]) < ord(b[1])

\* x < y for two (cube_name, horizon_name) index entries
IndexLess(x, y) == StrLess(x[1], y[1]) \/ (x[1] = y[1] /\ StrLess(x[2], y[2]))

\* row put into sorted rows behind every row that is not greater
Insert(sorted, row) ==
    LET p == Cardinality({k \in 1..Len(sorted) : ~IndexLess(row.index, sorted[k].index)})
    IN  SubSeq(sorted, 1, p) \o <<row>> \o SubSeq(sorted, p + 1, Len(sorted))

RECURSIVE SortRows(_)
SortRows(rows) ==
    IF Len(rows) = 0 THEN <<>>
    ELSE Insert(SortRows(SubSeq(rows, 1, Len(rows) - 1)), rows[Len(rows)])

\* frame.sort_index(): the rows in ascending order of their index, ties in input order
sort_index(frame) == [frame EXCEPT !.rows = SortRows(frame.rows)]

\* composite keys of the results table
SummKeys == { <<"M", "+", "a">>, <<"M", "+", "b">>, <<"K", "+", "a">>, <<"M">>, <<"M", "+", "a", "+", "b">> }

KeyAlphabet == {"M", "t", "+"}

KeyUniverse == SeqsUpTo(KeyAlphabet, MaxKeyLen)

\* number of iterations recorded in each row of a table
IterCounts == {2, 3, 4}

\* the rows of a results table with n iterations: the four metric columns hold
\* one value per iteration
ResultRows(keys, n) ==
    { [cube_and_horizon |-> k, repetition |-> rep, iteration |-> n,
       coverages |-> [it \in 1..n |-> it], window_rates |-> [it \in 1..n |-> it],
       corrs |-> [it \in 1..n |-> it], local_corrs |-> [it \in 1..n |-> it]]
      : k \in keys, rep \in 0..MaxRepetition }

SummInitWith(tables) ==
    /\ pc = "summ_project"
    /\ err = NoExc
    /\ dirs = {} /\ files = {} /\ paths = <<>> /\ path_cube = 0
    /\ geometry = [short_name |-> <<>>, lens |-> <<>>]
    /\ cube_dir = <<>> /\ save_path = <<>>
    /\ N = 0 /\ i = 0 /\ locs = <<>> /\ loc = 0
    /\ MetricsIdle
    /\ results_df \in tables
    /\ df = <<>>
    /\ dff = <<>>
    /\ wr = NoFrame /\ cov = NoFrame /\ corrs = NoFrame /\ out = NoFrame

SummInit ==
    SummInitWith(UNION {SeqsUpTo(ResultRows(SummKeys, n), MaxRows) : n \in IterCounts})

SummUnchanged ==
    UNCHANGED <<dirs, files, paths, path_cube, geometry, cube_dir, save_path,
                demo_vars, metrics_vars, results_df>>

\* the cells before the last one leave its variables alone
ReshapeUnchanged == UNCHANGED <<wr, cov, corrs, out>>

\* df = results.df[columns + ['cube_and_horizon', 'repetition']]
SummProject ==
    /\ pc = "summ_project"
    /\ df' = Project(results_df, columns \o <<"cube_and_horizon", "repetition">>)
    /\ pc' = "summ_cube_name"
    /\ UNCHANGED <<err, dff>>
    /\ SummUnchanged
    /\ ReshapeUnchanged

\* df['cube_name'] = df['cube_and_horizon'].apply(lambda item: item.split('+')[0])
SummCubeName ==
    /\ pc = "summ_cube_name"
    /\ df' = ApplySplit(df, "cube_name", 1)
    /\ pc' = "summ_horizon_name"
    /\ UNCHANGED <<err, dff>>
    /\ SummUnchanged
    /\ ReshapeUnchanged

\* df['horizon_name'] = df['cube_and_horizon'].apply(lambda item: item.split('+')[1])
SummHorizonName ==
    /\ pc = "summ_horizon_name"
    /\ IF CanApply(df, 2)
       THEN df' = ApplySplit(df, "horizon_name", 2) /\ pc' = "summ_set_index" /\ err' = err
       ELSE df' = df /\ Raise("IndexError")
    /\ UNCHANGED dff
    /\ SummUnchanged
    /\ ReshapeUnchanged

\* dff = df.reset_index().set_index(['cube_name', 'horizon_name'])[columns]
SummSetIndex ==
    /\ pc = "summ_set_index"
    /\ dff' = [r \in 1..Len(set_index(df)) |->
                 [index |-> set_index(df)[r].index,
                  row |-> [c \in Range(columns) |-> set_index(df)[r].row[c]]]]
    /\ pc' = "summ_done"
    /\ UNCHANGED <<err, df>>
    /\ SummUnchanged
    /\ ReshapeUnchanged

\* wr = dff['window_rates'].apply(pd.Series).rename({i : f'window_rate_{i}' for i in range(3)}, axis=1)
\* cov, corrs likewise; pd.concat((wr, cov, corrs), axis=1).sort_index()
\* On a table with no rows apply() returns an empty Series; rename(..., axis=1)
\* of a Series raises ValueError or ignores axis, depending on the pandas version.
SummReshape ==
    /\ pc = "summ_done"
    /\ IF Len(dff) = 0
       THEN \E raises \in BOOLEAN :
                /\ UNCHANGED <<wr, cov, corrs, out>>
                /\ IF raises THEN Raise("ValueError")
                   ELSE pc' = "summ_displayed" /\ err' = err
       ELSE /\ wr' = rename(apply_Series(dff, "window_rates"),
                            RenameMap(<<"w", "i", "n", "d", "o", "w", "_", "r", "a", "t", "e">>, 3))
            /\ cov' = rename(apply_Series(dff, "coverages"),
                             RenameMap(<<"c", "o", "v", "e", "r", "a", "g", "e">>, 3))
            /\ corrs' = rename(apply_Series(dff, "corrs"), RenameMap(<<"c", "o", "r", "r">>, 3))
            /\ out' = sort_index(concat(<<wr', cov', corrs'>>))
            /\ pc' = "summ_displayed"
            /\ err' = err
    /\ UNCHANGED <<df, dff>>
    /\ SummUnchanged

SummNext ==
    \/ SummProject
    \/ SummCubeName
    \/ SummHorizonName
    \/ SummSetIndex
    \/ SummReshape

SummSpec == SummInit /\ [][SummNext]_vars

\* the summarizer on one-row tables, for every composite key
KeysInit == SummInitWith({<<row>> : row \in ResultRows(KeyUniverse, 3)})

KeysSpec == KeysInit /\ [][SummNext]_vars

-----------------------------------------------------------------------------
(* Slice exporter: properties *)

\* the axis step (DemoAxis) has acted on the current axis: it built locs or it raised
AxisActed ==
    \/ pc = "demo_for_loc"
    \/ pc = "error" /\ err = "ValueError"

\* the extent of the current axis
Extent == geometry.lens[i]

\* a list was generated; it starts at (E // N) // 3, advances by E // N, stays below E
LocsAsClaimed ==
    /\ pc = "demo_for_loc"
    /\ Len(locs) > 0
    /\ locs[1] = (Extent \div N) \div 3
    /\ \A k \in 1..(Len(locs) - 1) : locs[k + 1] - locs[k] = Extent \div N
    /\ \A k \in 1..Len(locs) : locs[k] < Extent

\* C1 as stated: for any extent E and slide count N the generated list of
\* locations starts at (E // N) // 3, has stride E // N and stays below E.
C1_AnyExtentAndCount == AxisActed => LocsAsClaimed

\* C1 amended: for any extent E and slide count N with 1 <= N <= E the generated
\* list of locations starts at (E // N) // 3, consecutive locations differ by
\* exactly E // N, and no location is >= E.
C1_Locations == (AxisActed /\ 1 <= N /\ N <= Extent) => LocsAsClaimed

\* C1 witness: extent 100 and N = 5 gave [6, 26, 46, 66, 86]
C1_Witness ==
    /\ pc = "demo_for_loc"
    /\ Extent = 100
    /\ N = 5
    /\ locs = <<6, 26, 46, 66, 86>>

\* C2 as stated: for every source and axis, the number of locations generated,
\* and hence of slides requested from show_slide, is exactly N.
C2_ExactlyNSlides ==
    pc = "demo_for_loc" => (Len(locs) = N /\ (loc = Len(locs) => loc = N))

-----------------------------------------------------------------------------
(* Metric reporter: properties *)

\* positions in evals of the calls made from the loop over metrics / after it
MetricCalls == {k \in 1..Len(evals) : ~evals[k].aggregate}

AggregateCalls == {k \in 1..Len(evals) : evals[k].aggregate}

\* the name begins with the five characters l, o, c, a, l
BeginsWithLocal(name) ==
    /\ Len(name) >= 5
    /\ name[1] = "l" /\ name[2] = "o" /\ name[3] = "c" /\ name[4] = "a" /\ name[5] = "l"

\* C3: for every metric name, the parameters passed to the evaluator are the
\* local preset if and only if the name begins with "local", and the support
\* preset otherwise.
C3_PresetByLocalPrefix ==
    /\ local_kwargs # support_kwargs
    /\ \A k \in MetricCalls :
          /\ evals[k].params = local_kwargs <=> BeginsWithLocal(evals[k].name)
          /\ ~BeginsWithLocal(evals[k].name) => evals[k].params = support_kwargs

\* C3 witness: support_hellinger got the support preset, local_corr the local preset
C3_Witness ==
    /\ Len(evals) >= 2
    /\ evals[1].name = <<"s", "u", "p", "p", "o", "r", "t", "_", "h", "e", "l", "l", "i", "n", "g", "e", "r">> /\ evals[1].params = SourceSupportKwargs
    /\ evals[2].name = <<"l", "o", "c", "a", "l", "_", "c", "o", "r", "r">> /\ evals[2].params = SourceLocalKwargs

\* the directory the notebook is about to create
MkdirTarget ==
    IF pc = "metrics_script_dir" THEN metrics_script_dir
    ELSE join(<<"/">>, <<metrics_script_dir, geometry.short_name>>)

AtMkdir == pc \in {"metrics_script_dir", "metrics_cube_dir"}

\* creating a directory that exists raises nothing, changes nothing, and the run goes on
C4_ExistingDirStep ==
    (AtMkdir /\ MkdirTarget \in dirs) =>
        (dirs' = dirs /\ files' = files /\ pc' # "error" /\ err' = NoExc)

OutputDirs ==
    {metrics_script_dir} \cup {join(<<"/">>, <<metrics_script_dir, s>>) : s \in ShortNames}

\* creating a directory twice leaves what creating it once leaves
C4_TwiceIsOnce ==
    \A p \in OutputDirs :
        LET once == TryMkdir(dirs, files, p)
            twice == TryMkdir(once.dirs, files, p)
        IN  once.exc = NoExc => twice = once

\* C4: creating script_dir or a cube_dir that already exists raises no error,
\* leaves the filesystem unchanged and lets the batch continue; creating it
\* twice gives the same state as creating it once.
C4_MkdirIdempotent == [][C4_ExistingDirStep]_vars /\ []C4_TwiceIsOnce

\* C4 witness: in the rerun the cube's directory existed and the run went on to the metrics
C4_Witness ==
    /\ run = 2
    /\ pc = "metrics_for_metric"
    /\ cube_dir \in dirs

\* C5 as stated: with ADD_PREFIX on, for the same source and the same metric
\* name, two parameter dictionaries that differ give different file paths.
C5_DifferentParamsDifferentPaths ==
    ADD_PREFIX =>
        \A a, b \in MetricCalls :
            (/\ evals[a].cube = evals[b].cube
             /\ evals[a].name = evals[b].name
             /\ evals[a].params # evals[b].params)
            => evals[a].savepath # evals[b].savepath

\* key:str(value) of one item
PairString(it) == it.key \o <<":">> \o str(it.value)

\* where item k of kw starts in the suffix: the lengths of the items before it
\* and of their separators
RECURSIVE Offset(_, _)
Offset(kw, k) == IF k = 1 THEN 0 ELSE Offset(kw, k - 1) + Len(PairString(kw[k - 1])) + 1

\* sfx holds the key:value pairs of kw in the order of kw, '|' between them
ListsInOrder(sfx, kw) ==
    LET off == [k \in 1..(Len(kw) + 1) |-> Offset(kw, k)]
    IN  /\ Len(kw) > 0
        /\ Len(sfx) = off[Len(kw) + 1] - 1
        /\ \A k \in 1..Len(kw) :
              /\ SubSeq(sfx, off[k] + 1, off[k + 1] - 1) = PairString(kw[k])
              /\ k < Len(kw) => sfx[off[k + 1]] = "|"

\* the text between '<cube_dir>/<name>@' and '.png' in the save path of call k
SuffixOf(k) ==
    LET base == join(<<"/">>, <<metrics_script_dir, paths[evals[k].cube].short_name,
                               evals[k].name>>)
    IN  SubSeq(evals[k].savepath, Len(base) + 2, Len(evals[k].savepath) - Len(png))

\* C6: the suffix is a function of the parameter dictionary (the same
\* dictionary always yields the same suffix), and it lists the key:value
\* pairs, joined by '|', in the iteration order of the dictionary.
C6_SuffixDeterministicInOrder ==
    ADD_PREFIX =>
        LET sfx == [k \in MetricCalls |-> SuffixOf(k)]
        IN  /\ \A k \in MetricCalls : ListsInOrder(sfx[k], evals[k].params)
            /\ \A a, b \in MetricCalls :
                  (a < b /\ evals[a].params = evals[b].params) => sfx[a] = sfx[b]

\* C6 witness: {'supports': 20, 'agg': 'mean'} was encoded as supports:20|agg:mean
C6_Witness ==
    /\ ADD_PREFIX
    /\ \E k \in MetricCalls :
          /\ evals[k].params = << Item(<<"s", "u", "p", "p", "o", "r", "t", "s">>, PyInt(20)), Item(<<"a", "g", "g">>, PyStr(<<"m", "e", "a", "n">>)) >>
          /\ SuffixOf(k) = <<"s", "u", "p", "p", "o", "r", "t", "s", ":", "2", "0", "|", "a", "g", "g", ":", "m", "e", "a", "n">>

\* image paths handed to gm.evaluate for source c in the current run
ImagePaths(c) ==
    {evals[k].savepath : k \in {j \in 1..Len(evals) : evals[j].run = run /\ evals[j].cube = c}}

AllImagePaths == UNION {ImagePaths(c) : c \in 1..Len(paths)}

\* M + 1 distinct images per source, written into its directory, S * (M + 1) in all
ImagesAsClaimed ==
    /\ \A c \in 1..Len(paths) :
          /\ Cardinality(ImagePaths(c)) = Len(metrics) + 1
          /\ \A f \in ImagePaths(c) :
                /\ f \in files
                /\ Dirname(f) = join(<<"/">>, <<metrics_script_dir, paths[c].short_name>>)
    /\ Cardinality(AllImagePaths) = Len(paths) * (Len(metrics) + 1)

Distinct(s) == \A a, b \in 1..Len(s) : a # b => s[a] # s[b]

MetricCallsOf(k) ==
    {j \in MetricCalls : evals[j].run = evals[k].run /\ evals[j].cube = evals[k].cube}

\* source c of the current run has been processed to the end
Finished(c) ==
    \/ c < path_cube /\ pc # "metrics_script_dir"
    \/ c = path_cube /\ pc \in {"metrics_for_cube", "done"}

\* C10: for each source the quality_map evaluation after the metric loop is
\* invoked exactly once, only after every named metric of that source has been
\* evaluated, and its computed_metrics are exactly the results of that
\* source's metrics in list order, none from an earlier source.
C10_QualityMapAfterMetrics ==
    /\ \A k \in AggregateCalls :
          LET cm == evals[k].computed_metrics
          IN  /\ Len(cm) = Len(metrics)
              /\ {cm[m] : m \in 1..Len(cm)} = MetricCallsOf(k)
              /\ \A m \in 1..Len(cm) : cm[m] < k /\ evals[cm[m]].name = metrics[m]
              /\ \A m \in 1..(Len(cm) - 1) : cm[m] < cm[m + 1]
    /\ \A a, b \in AggregateCalls :
          (evals[a].run = evals[b].run /\ evals[a].cube = evals[b].cube) => a = b
    /\ \A c \in 1..Len(paths) :
          Finished(c) => \E k \in AggregateCalls : evals[k].run = run /\ evals[k].cube = c

\* C10 witness: the second of two sources got its quality map from its own two results
C10_Witness ==
    /\ pc = "done"
    /\ Len(paths) = 2
    /\ Len(metrics) = 2
    /\ \E k \in AggregateCalls : evals[k].cube = 2 /\ Len(evals[k].computed_metrics) = 2

\* the presets in force when call k was made
PresetsAt(k) ==
    IF evals[k].run = run THEN <<local_kwargs, support_kwargs>>
    ELSE <<SourceLocalKwargs, SourceSupportKwargs>>

\* the preset the loop selected for the last metric name of the list
LastSelected(k) ==
    IF BeginsWithLocal(metrics[Len(metrics)]) THEN PresetsAt(k)[1] ELSE PresetsAt(k)[2]

-----------------------------------------------------------------------------
(* Both batch loops: error handling *)

\* a step in which the provider or the evaluator raises
FailureStep ==
    \/ DemoOpenCubeFails
    \/ DemoShowSlideFails
    \/ MetricsOpenCubeFails
    \/ MetricsEvaluateFails
    \/ MetricsQualityMapFails

\* how far the loops have got: source, axis, slide, metric, evaluator calls
Progress == <<path_cube, i, loc, metric_name, Len(evals)>>

\* an exception other than FileExistsError has been raised exactly when the run is aborted
AbortedIffRaised ==
    /\ pc = "error" <=> err # NoExc
    /\ err # "FileExistsError"

\* a failure of the provider or the evaluator aborts the run in that very step
FailureAborts == FailureStep => (pc' = "error" /\ err' # NoExc)

\* after the abort no slice, metric or source is processed and nothing is written
NothingAfterAbort ==
    pc = "error" => (Progress' = Progress /\ files' = files /\ dirs' = dirs /\ pc' = "error")

\* no step removes a file or a directory
FilesStay == files \subseteq files' /\ dirs \subseteq dirs'

\* C11: the only failure caught is FileExistsError on os.mkdir; a failure of
\* opening a source, of show_slide or of evaluate is not caught and aborts the
\* batch: no further slice, metric or source is processed after it, and the
\* files already written stay in place.
C11_UncaughtFailureAborts ==
    /\ []AbortedIffRaised
    /\ [][FailureAborts /\ NothingAfterAbort /\ FilesStay]_vars

\* C11 witness: evaluate failed on the second metric of the first of two sources;
\* the first metric's image is on disk and the second source was never opened
C11_Witness ==
    /\ pc = "error"
    /\ err = "evaluate"
    /\ Len(paths) = 2 /\ path_cube = 1
    /\ Len(metrics) = 2 /\ metric_name = 2
    /\ Len(evals) = 1
    /\ evals[1].savepath \in files

-----------------------------------------------------------------------------
(* Summarizer: properties *)

CountPlus(key) == Cardinality(Positions(key, "+"))

\* the columns cube_name and horizon_name have been added to df
KeysSplit == pc \in {"summ_set_index", "summ_done", "summ_displayed"}

\* C7: when a composite key contains exactly one '+', splitting it yields
\* exactly two substrings, taken as cube_name and horizon_name, and
\* cube_name + '+' + horizon_name equals the key.
C7_SplitRecoversKey ==
    \A r \in 1..Len(results_df) :
        LET key == results_df[r]["cube_and_horizon"]
        IN  CountPlus(key) = 1 =>
               /\ Len(SplitKey(key)) = 2
               /\ Len(results_df) = 1 => pc # "error"
               /\ KeysSplit =>
                     df[r]["cube_name"] \o <<"+">> \o df[r]["horizon_name"] = key

\* C7 witness: the key '+t' was split into '' and 't'
C7_Witness ==
    /\ pc = "summ_done"
    /\ results_df[1]["cube_and_horizon"] = <<"+", "t">>
    /\ dff[1].index = << <<>>, <<"t">> >>

\* the (source, horizon) pairs present in the input table
InputPairs ==
    {<<SplitKey(results_df[r]["cube_and_horizon"])[1],
       SplitKey(results_df[r]["cube_and_horizon"])[2]>> : r \in 1..Len(results_df)}

\* C8 as stated: the re-indexed table has exactly one row for each (source,
\* horizon) pair present in the input table, repetitions included.
C8_OneRowPerPair ==
    pc = "summ_done" =>
        /\ \A r \in 1..Len(dff) : dff[r].index \in InputPairs
        /\ \A pair \in InputPairs :
              Cardinality({r \in 1..Len(dff) : dff[r].index = pair}) = 1

\* C8 amended: the re-indexed table has exactly one row for each row of the
\* input table, in the same order, indexed by the (cube_name, horizon_name) of
\* that row's key; a pair has as many rows as the input has rows for it.
C8_OneRowPerInputRow ==
    pc = "summ_done" =>
        /\ Len(dff) = Len(results_df)
        /\ \A r \in 1..Len(dff) :
              /\ dff[r].index = <<SplitKey(results_df[r]["cube_and_horizon"])[1],
                                  SplitKey(results_df[r]["cube_and_horizon"])[2]>>
              /\ \A c \in Range(columns) : dff[r].row[c] = results_df[r][c]
        /\ \A pair \in InputPairs :
              Cardinality({r \in 1..Len(dff) : dff[r].index = pair}) =
              Cardinality({r \in 1..Len(results_df) :
                  <<SplitKey(results_df[r]["cube_and_horizon"])[1],
                    SplitKey(results_df[r]["cube_and_horizon"])[2]>> = pair})

\* C8 witness: two repetitions of the pair (M, a) gave two rows indexed (M, a)
C8_Witness ==
    /\ pc = "summ_done"
    /\ Len(results_df) = 2
    /\ results_df[1]["cube_and_horizon"] = <<"M", "+", "a">>
    /\ results_df[2]["cube_and_horizon"] = <<"M", "+", "a">>
    /\ results_df[1]["repetition"] # results_df[2]["repetition"]
    /\ Len(dff) = 2
    /\ dff[1].index = dff[2].index

\* the name the display gives to the values of a sequence-valued column
MetricOf(col) ==
    CASE col = "coverages" -> <<"c", "o", "v", "e", "r", "a", "g", "e">>
      [] col = "window_rates" -> <<"w", "i", "n", "d", "o", "w", "_", "r", "a", "t", "e">>
      [] col = "corrs" -> <<"c", "o", "r", "r">>
      [] col = "local_corrs" -> <<"l", "o", "c", "a", "l", "_", "c", "o", "r", "r">>

\* the column label '<metric>_<i>'
ColumnName(metric, it) == PyStr(metric \o <<"_">> \o StrInt(it))

\* the displayed table has a column labelled '<metric>_<i>' that holds, for the
\* row of dff numbered r, entry i of its sequence in column col
ShownAs(col, r, it) ==
    \E k \in 1..Len(out.columns) :
        /\ out.columns[k] = ColumnName(MetricOf(col), it)
        /\ \E q \in 1..Len(out.rows) :
              /\ out.rows[q].index = dff[r].index
              /\ out.rows[q].cells[k] = dff[r].row[col][it + 1]

\* the last cell has displayed a table with rows
Displayed == pc = "summ_displayed" /\ Len(dff) > 0

\* C12 as stated: each of the four sequence-valued columns (coverages,
\* window_rates, corrs, local_corrs) is shown as one column per iteration index,
\* labelled '<metric>_<i>' for every index i of the sequence, whatever its
\* length, and no two columns of the displayed table have the same label.
C12_OneColumnPerIteration ==
    Displayed =>
        /\ \A col \in Range(columns) : \A r \in 1..Len(dff) :
              \A it \in 0..(Len(dff[r].row[col]) - 1) : ShownAs(col, r, it)
        /\ Distinct(out.columns)

====
